---- MODULE Spec2Model ----
(***************************************************************************)
(* Knowledge-graph core of jemanote-pwa.                                   *)
(*                                                                         *)
(*   GraphIndexer   src/src/components/timeline/TimelineView.tsx:1154-1401 *)
(*   graph worker   src/public/graph-worker.js                             *)
(*                                                                         *)
(* A JavaScript string is a sequence of one-character strings, so that     *)
(* the regular expressions, trim, toLowerCase, replace, split and the      *)
(* string comparison of the source are computed character by character.    *)
(***************************************************************************)
EXTENDS Integers, Sequences, FiniteSets, TLC

(***************************************************************************)
(* JavaScript string primitives                                            *)
(***************************************************************************)

\* The printable ASCII characters in code order, from the space (32) to the tilde
\* (126); the two quotes, the backslash and the backtick stand under a name.
Ascii ==
  <<" ", "!", "<quote>", "#", "$", "%", "&", "<apostrophe>", "(", ")", "*", "+",
   ",", "-", ".", "/", "0", "1", "2", "3", "4", "5", "6", "7",
   "8", "9", ":", ";", "<", "=", ">", "?", "@", "A", "B", "C",
   "D", "E", "F", "G", "H", "I", "J", "K", "L", "M", "N", "O",
   "P", "Q", "R", "S", "T", "U", "V", "W", "X", "Y", "Z", "[",
   "<backslash>", "]", "^", "_", "<backtick>", "a", "b", "c", "d", "e", "f", "g",
   "h", "i", "j", "k", "l", "m", "n", "o", "p", "q", "r", "s",
   "t", "u", "v", "w", "x", "y", "z", "{", "|", "}", "~">>

CodeTable ==
  [c \in {Ascii[i] : i \in 1..Len(Ascii)} |-> 31 + (CHOOSE i \in 1..Len(Ascii) : Ascii[i] = c)]

\* UTF-16 code unit of a character.
CharCode(c) == CodeTable[c]

\* String.prototype.toLowerCase on one character.
LowerChar(c) ==
  IF CharCode(c) >= 65 /\ CharCode(c) <= 90 THEN Ascii[CharCode(c) + 32 - 31] ELSE c

toLowerCase(s) == [i \in 1..Len(s) |-> LowerChar(s[i])]

\* s.substring(from0, to0) with 0-based, end-exclusive indices.
substring(s, from0, to0) == SubSeq(s, from0 + 1, to0)

startsWith(s, p) == Len(s) >= Len(p) /\ SubSeq(s, 1, Len(p)) = p

endsWith(s, p) == Len(s) >= Len(p) /\ SubSeq(s, Len(s) - Len(p) + 1, Len(s)) = p

isWhitespace(c) == c = " "

RECURSIVE trimStart(_)
trimStart(s) == IF s # <<>> /\ isWhitespace(Head(s)) THEN trimStart(Tail(s)) ELSE s

RECURSIVE trimEnd(_)
trimEnd(s) ==
  IF s # <<>> /\ isWhitespace(s[Len(s)]) THEN trimEnd(SubSeq(s, 1, Len(s) - 1)) ELSE s

\* String.prototype.trim
trim(s) == trimEnd(trimStart(s))

\* The < of two JavaScript strings: lexicographic on code units.
RECURSIVE StrLess(_, _)
StrLess(s, t) ==
  IF t = <<>> THEN FALSE
  ELSE IF s = <<>> THEN TRUE
  ELSE IF CharCode(Head(s)) # CharCode(Head(t)) THEN CharCode(Head(s)) < CharCode(Head(t))
  ELSE StrLess(Tail(s), Tail(t))

\* 0-based index of the last occurrence of character c in s, -1 when absent.
RECURSIVE lastIndexOfChar(_, _)
lastIndexOfChar(s, c) ==
  IF s = <<>> THEN -1
  ELSE IF s[Len(s)] = c THEN Len(s) - 1
  ELSE lastIndexOfChar(SubSeq(s, 1, Len(s) - 1), c)

\* s.split(/).pop() : the segment after the last slash, the whole string without one.
splitPop(s) == substring(s, lastIndexOfChar(s, "/") + 1, Len(s))

\* replaceMdSuffix that leaves the suffix in place.
replaceMdSuffix_keep(s) == s

\* s.replace(/\.md$/, empty)
replaceMdSuffix(s) ==
  IF endsWith(s, <<".", "m", "d">>) THEN SubSeq(s, 1, Len(s) - 3) ELSE s

\* s.replace(/^\.\//, empty)
replaceDotSlashPrefix(s) ==
  IF startsWith(s, <<".", "/">>) THEN SubSeq(s, 3, Len(s)) ELSE s

(***************************************************************************)
(* Regular expressions of GraphIndexer.  Positions are 0-based as in       *)
(* JavaScript; a RegExp with the g flag keeps lastIndex between calls.     *)
(***************************************************************************)

NoChar == "<end>"

charAt(s, p) == IF p >= 0 /\ p < Len(s) THEN s[p + 1] ELSE NoChar

Min(S) == CHOOSE m \in S : \A n \in S : m <= n

\* End (exclusive) of the longest run of characters outside excl that starts at p:
\* what a greedy negated class [^...]+ consumes.
RECURSIVE runEnd(_, _, _)
runEnd(s, p, excl) ==
  IF p >= Len(s) \/ charAt(s, p) \in excl THEN p ELSE runEnd(s, p + 1, excl)

NoMatch == [found |-> FALSE]

\* /\[\[([^\]|#]+)(?:#[^\]|]+)?(?:\|[^\]]+)?\]\]/ anchored at position p.
\* Every class is followed by a character it excludes, so the greedy runs
\* are the only way to match and no backtracking alternative exists.
wikilinkMatchAt(s, p) ==
  IF ~(charAt(s, p) = "[" /\ charAt(s, p + 1) = "[") THEN NoMatch
  ELSE
    LET g1s == p + 2
        g1e == runEnd(s, g1s, {"]", "|", "#"})
        hs  == g1e + 1
        he  == runEnd(s, hs, {"]", "|"})
        \* position after the optional (?:#[^\]|]+), -1 when it cannot be passed
        q   == IF charAt(s, g1e) = "#" THEN (IF he > hs THEN he ELSE -1) ELSE g1e
        as  == q + 1
        ae  == runEnd(s, as, {"]"})
        \* position after the optional (?:\|[^\]]+)
        r   == IF q = -1 THEN -1
               ELSE IF charAt(s, q) = "|" THEN (IF ae > as THEN ae ELSE -1)
               ELSE q
    IN IF g1e > g1s /\ r # -1 /\ charAt(s, r) = "]" /\ charAt(s, r + 1) = "]"
         THEN [found |-> TRUE, index |-> p, end |-> r + 2, group1 |-> substring(s, g1s, g1e)]
         ELSE NoMatch

\* /\[.*?\]\(([^)]+)\)/ anchored at position p: the lazy .*? stops at the first
\* "](" that is followed by a non-empty run closed by ")".
mdLinkMatchAt(s, p) ==
  IF charAt(s, p) # "[" THEN NoMatch
  ELSE
    LET ok(j) == /\ charAt(s, j) = "]"
                 /\ charAt(s, j + 1) = "("
                 /\ \A k \in (p + 1)..(j - 1) : charAt(s, k) # "\n"
                 /\ runEnd(s, j + 2, {")"}) > j + 2
                 /\ charAt(s, runEnd(s, j + 2, {")"})) = ")"
        js == {j \in (p + 1)..Len(s) : ok(j)}
    IN IF js = {} THEN NoMatch
       ELSE LET j == Min(js)
                g1e == runEnd(s, j + 2, {")"})
            IN [found |-> TRUE, index |-> p, end |-> g1e + 1,
                group1 |-> substring(s, j + 2, g1e)]

\* RegExp.prototype.exec of a global regex: search from lastIndex; a match moves
\* lastIndex to its end, a failure resets lastIndex to 0.  Returns the match and
\* the new lastIndex.
RECURSIVE wikilinkExec(_, _)
wikilinkExec(s, lastIndex) ==
  IF lastIndex > Len(s) THEN [match |-> NoMatch, lastIndex |-> 0]
  ELSE LET m == wikilinkMatchAt(s, lastIndex)
       IN IF m.found THEN [match |-> m, lastIndex |-> m.end]
          ELSE wikilinkExec(s, lastIndex + 1)

RECURSIVE mdLinkExec(_, _)
mdLinkExec(s, lastIndex) ==
  IF lastIndex > Len(s) THEN [match |-> NoMatch, lastIndex |-> 0]
  ELSE LET m == mdLinkMatchAt(s, lastIndex)
       IN IF m.found THEN [match |-> m, lastIndex |-> m.end]
          ELSE mdLinkExec(s, lastIndex + 1)

\* \w or "-": one character of the class [\w\-].
isTagChar(c) ==
  LET n == CharCode(c)
  IN c # NoChar /\ ((n >= 48 /\ n <= 57) \/ (n >= 65 /\ n <= 90) \/ (n >= 97 /\ n <= 122)
                    \/ n = 95 \/ n = 45)

\* /#[\w\-]+/ anchored at position p.
tagMatchAt(s, p) ==
  IF charAt(s, p) = "#" /\ isTagChar(charAt(s, p + 1))
    THEN [found |-> TRUE, index |-> p,
          end |-> Min({q \in (p + 2)..Len(s) : q = Len(s) \/ ~isTagChar(charAt(s, q))})]
    ELSE NoMatch

RECURSIVE tagExec(_, _)
tagExec(s, lastIndex) ==
  IF lastIndex > Len(s) THEN [match |-> NoMatch, lastIndex |-> 0]
  ELSE LET m == tagMatchAt(s, lastIndex)
       IN IF m.found THEN [match |-> m, lastIndex |-> m.end]
          ELSE tagExec(s, lastIndex + 1)

\* String.prototype.match with a global regex: every match, left to right,
\* starting at 0 whatever lastIndex was.
RECURSIVE tagMatchAll(_, _, _)
tagMatchAll(s, from, acc) ==
  LET r == tagExec(s, from)
  IN IF ~r.match.found THEN acc
     ELSE tagMatchAll(s, r.lastIndex, Append(acc, substring(s, r.match.index, r.match.end)))

(***************************************************************************)
(* Map and Set of JavaScript, in insertion order: a sequence of entries.   *)
(***************************************************************************)

MapHas(m, k) == \E i \in 1..Len(m) : m[i].key = k

MapGet(m, k) == m[CHOOSE i \in 1..Len(m) : m[i].key = k].value

MapSet(m, k, v) ==
  IF MapHas(m, k)
    THEN [i \in 1..Len(m) |-> IF m[i].key = k THEN [key |-> k, value |-> v] ELSE m[i]]
    ELSE Append(m, [key |-> k, value |-> v])

SeqHas(q, x) == \E i \in 1..Len(q) : q[i] = x

\* [...new Set(list)]
RECURSIVE uniqueInOrder(_, _)
uniqueInOrder(list, acc) ==
  IF list = <<>> THEN acc
  ELSE uniqueInOrder(Tail(list), IF SeqHas(acc, Head(list)) THEN acc ELSE Append(acc, Head(list)))

(***************************************************************************)
(* GraphIndexer                                                            *)
(***************************************************************************)

\* null, as a value no string equals
Null == <<"<null>">>

\* A field or variable that may be undefined holds Absent or Present(value).
Absent == <<>>

Present(v) == <<v>>

ValueOf(o) == o[1]

\* What a regex sees of a value: String(value).
StringOf(o) ==
  IF o = Absent THEN <<"u", "n", "d", "e", "f", "i", "n", "e", "d">> ELSE ValueOf(o)

\* The wikilink scan with a single exec in place of the loop: the regex is left
\* with the lastIndex of its first match.
wikilinkLoop_firstOnly(content, lastIndex, links) ==
  LET r == wikilinkExec(content, lastIndex)
      target == trim(r.match.group1)
  IN [links |-> IF r.match.found /\ target # <<>>
                  THEN Append(links, [target |-> target, type |-> "wikilink"])
                  ELSE links,
      lastIndex |-> r.lastIndex]

\* The first while loop of extractLinks: wikilinkRegex.exec until it returns null.
RECURSIVE wikilinkLoop(_, _, _)
wikilinkLoop(content, lastIndex, links) ==
  LET r == wikilinkExec(content, lastIndex)
      target == trim(r.match.group1)
  IN IF ~r.match.found THEN [links |-> links, lastIndex |-> r.lastIndex]
     ELSE wikilinkLoop(content, r.lastIndex,
            IF target # <<>> THEN Append(links, [target |-> target, type |-> "wikilink"])
                             ELSE links)

HttpPrefix == <<"h", "t", "t", "p", ":", "/", "/">>

HttpsPrefix == <<"h", "t", "t", "p", "s", ":", "/", "/">>

\* The second while loop of extractLinks: mdLinkRegex.exec until it returns null.
RECURSIVE mdLinkLoop(_, _, _)
mdLinkLoop(content, lastIndex, links) ==
  LET r == mdLinkExec(content, lastIndex)
      target == trim(r.match.group1)
  IN IF ~r.match.found THEN [links |-> links, lastIndex |-> r.lastIndex]
     ELSE mdLinkLoop(content, r.lastIndex,
            IF target # <<>> /\ ~startsWith(target, HttpPrefix) /\ ~startsWith(target, HttpsPrefix)
              THEN Append(links, [target |-> target, type |-> "mdlink"])
              ELSE links)

\* extractLinks(content), run with the instance's wikilinkRegex.lastIndex as it
\* stands; mdLinkRegex.lastIndex is set to 0 before its loop.  Returns the links
\* and the lastIndex both regexes are left with.
extractLinks(content, wikilinkLast) ==
  LET w == wikilinkLoop(StringOf(content), wikilinkLast, <<>>)
      m == mdLinkLoop(StringOf(content), 0, w.links)
  IN [links |-> m.links, wikilinkLast |-> w.lastIndex, mdLinkLast |-> m.lastIndex]

\* resolveLink that looks the target up as a title before it looks it up as an id.
resolveLink_titleFirst(link, titleMap, noteMap) ==
  LET target == link.target
      titleLower == toLowerCase(target)
      cleaned == replaceDotSlashPrefix(replaceMdSuffix(target))
      cleanedLower == toLowerCase(cleaned)
      basename == IF splitPop(cleaned) # <<>> THEN splitPop(cleaned) ELSE cleaned
      basenameLower == toLowerCase(basename)
  IN IF MapHas(titleMap, titleLower) THEN MapGet(titleMap, titleLower)
     ELSE IF MapHas(noteMap, target) THEN target
     ELSE IF MapHas(titleMap, cleanedLower) THEN MapGet(titleMap, cleanedLower)
     ELSE IF MapHas(titleMap, basenameLower) THEN MapGet(titleMap, basenameLower)
     ELSE Null

\* resolveLink that takes the target of the link for an id without looking it up.
resolveLink_targetAsId(link, titleMap, noteMap) == link.target

\* resolveLink(link, titleMap, noteMap)
resolveLink(link, titleMap, noteMap) ==
  LET target == link.target
      titleLower == toLowerCase(target)
      cleaned == replaceDotSlashPrefix(replaceMdSuffix(target))
      cleanedLower == toLowerCase(cleaned)
      basename == IF splitPop(cleaned) # <<>> THEN splitPop(cleaned) ELSE cleaned
      basenameLower == toLowerCase(basename)
  IN IF MapHas(noteMap, target) THEN target
     ELSE IF MapHas(titleMap, titleLower) THEN MapGet(titleMap, titleLower)
     ELSE IF MapHas(titleMap, cleanedLower) THEN MapGet(titleMap, cleanedLower)
     ELSE IF MapHas(titleMap, basenameLower) THEN MapGet(titleMap, basenameLower)
     ELSE Null

\* extractTags(content): content.match throws a TypeError on undefined.
extractTagsThrows(content) == content = Absent

extractTags(content) ==
  LET tags == tagMatchAll(ValueOf(content), 0, <<>>)
  IN uniqueInOrder([i \in 1..Len(tags) |-> substring(tags[i], 1, Len(tags[i]))], <<>>)

getColorForNode(tags, degree) ==
  IF degree >= 10 THEN "#5a63e9"
  ELSE IF degree >= 5 THEN "#8B92FF"
  ELSE IF degree >= 2 THEN "#A8AEFF"
  ELSE IF degree = 0 THEN "#6B7280"
  ELSE "#9CA3AF"

Arrow == <<"-", ">">>

\* edgeKey with the key built in the direction of the edge.
edgeKey_directed(edge) == edge.from \o Arrow \o edge.to

\* The key deduplicateEdges builds for an edge.
edgeKey(edge) ==
  IF StrLess(edge.from, edge.to) THEN edge.from \o Arrow \o edge.to
                                 ELSE edge.to \o Arrow \o edge.from

\* dedupLoop that stores the edge of a new key from the smaller id to the greater.
RECURSIVE dedupLoop_normalized(_, _, _)
dedupLoop_normalized(edges, seen, unique) ==
  IF edges = <<>> THEN unique
  ELSE IF edgeKey(Head(edges)) \in seen THEN dedupLoop_normalized(Tail(edges), seen, unique)
  ELSE dedupLoop_normalized(
         Tail(edges), seen \cup {edgeKey(Head(edges))},
         Append(unique,
                IF StrLess(Head(edges).from, Head(edges).to) THEN Head(edges)
                ELSE [Head(edges) EXCEPT !.from = Head(edges).to, !.to = Head(edges).from]))

RECURSIVE dedupLoop(_, _, _)
dedupLoop(edges, seen, unique) ==
  IF edges = <<>> THEN unique
  ELSE IF edgeKey(Head(edges)) \in seen THEN dedupLoop(Tail(edges), seen, unique)
  ELSE dedupLoop(Tail(edges), seen \cup {edgeKey(Head(edges))}, Append(unique, Head(edges)))

deduplicateEdges(edges) == dedupLoop(edges, {}, <<>>)

\* notes.forEach(note => { noteMap.set(note.id, note); titleMap.set(title.toLowerCase(), note.id) })
RECURSIVE buildNoteMap(_, _)
buildNoteMap(notes, m) ==
  IF notes = <<>> THEN m
  ELSE buildNoteMap(Tail(notes), MapSet(m, Head(notes).id, Head(notes)))

RECURSIVE buildTitleMap(_, _)
buildTitleMap(notes, m) ==
  IF notes = <<>> THEN m
  ELSE buildTitleMap(Tail(notes), MapSet(m, toLowerCase(Head(notes).title), Head(notes).id))

\* notes.forEach(note => nodeDegree.set(note.id, 0))
RECURSIVE initDegree(_, _)
initDegree(notes, m) ==
  IF notes = <<>> THEN m ELSE initDegree(Tail(notes), MapSet(m, Head(notes).id, 0))

\* nodeDegree.get(id) || 0
degreeOf(nodeDegree, id) == IF MapHas(nodeDegree, id) THEN MapGet(nodeDegree, id) ELSE 0

\* linkStep without the test targetId !== note.id.
linkStep_noSelfCheck(acc, note, link, titleMap, noteMap) ==
  LET targetId == resolveLink(link, titleMap, noteMap)
  IN IF targetId # Null /\ targetId # <<>>
       THEN LET d1 == MapSet(acc.nodeDegree, note.id, degreeOf(acc.nodeDegree, note.id) + 1)
                d2 == MapSet(d1, targetId, degreeOf(d1, targetId) + 1)
            IN [acc EXCEPT
                  !.edges = acc.edges
                              \o <<[from |-> note.id, to |-> targetId, type |-> link.type],
                                   [from |-> targetId, to |-> note.id, type |-> "backlink"]>>,
                  !.nodeDegree = d2]
       ELSE acc

\* linkStep that increments the degrees for the first link of a pair only.
linkStep_degreePerPair(acc, note, link, titleMap, noteMap) ==
  LET targetId == resolveLink(link, titleMap, noteMap)
  IN IF targetId # Null /\ targetId # <<>> /\ targetId # note.id
       THEN LET known == \E i \in 1..Len(acc.edges) :
                           {acc.edges[i].from, acc.edges[i].to} = {note.id, targetId}
                d1 == MapSet(acc.nodeDegree, note.id, degreeOf(acc.nodeDegree, note.id) + 1)
                d2 == MapSet(d1, targetId, degreeOf(d1, targetId) + 1)
            IN [acc EXCEPT
                  !.edges = acc.edges
                              \o <<[from |-> note.id, to |-> targetId, type |-> link.type],
                                   [from |-> targetId, to |-> note.id, type |-> "backlink"]>>,
                  !.nodeDegree = IF known THEN acc.nodeDegree ELSE d2]
       ELSE acc

\* linkStep that increments the degree of the source note only.
linkStep_sourceDegreeOnly(acc, note, link, titleMap, noteMap) ==
  LET targetId == resolveLink(link, titleMap, noteMap)
  IN IF targetId # Null /\ targetId # <<>> /\ targetId # note.id
       THEN [acc EXCEPT
               !.edges = acc.edges
                           \o <<[from |-> note.id, to |-> targetId, type |-> link.type],
                                [from |-> targetId, to |-> note.id, type |-> "backlink"]>>,
               !.nodeDegree = MapSet(acc.nodeDegree, note.id,
                                     degreeOf(acc.nodeDegree, note.id) + 1)]
       ELSE acc

\* linkStep that pushes the backlink edge before the forward edge.
linkStep_backlinkFirst(acc, note, link, titleMap, noteMap) ==
  LET targetId == resolveLink(link, titleMap, noteMap)
  IN IF targetId # Null /\ targetId # <<>> /\ targetId # note.id
       THEN LET d1 == MapSet(acc.nodeDegree, note.id, degreeOf(acc.nodeDegree, note.id) + 1)
                d2 == MapSet(d1, targetId, degreeOf(d1, targetId) + 1)
            IN [acc EXCEPT
                  !.edges = acc.edges
                              \o <<[from |-> targetId, to |-> note.id, type |-> "backlink"],
                                   [from |-> note.id, to |-> targetId, type |-> link.type]>>,
                  !.nodeDegree = d2]
       ELSE acc

\* The body of links.forEach for one link of one note: push the forward edge and
\* the backlink, increment both degrees, when the link resolves to another note.
linkStep(acc, note, link, titleMap, noteMap) ==
  LET targetId == resolveLink(link, titleMap, noteMap)
  IN IF targetId # Null /\ targetId # <<>> /\ targetId # note.id
       THEN LET d1 == MapSet(acc.nodeDegree, note.id, degreeOf(acc.nodeDegree, note.id) + 1)
                d2 == MapSet(d1, targetId, degreeOf(d1, targetId) + 1)
            IN [acc EXCEPT
                  !.edges = acc.edges
                              \o <<[from |-> note.id, to |-> targetId, type |-> link.type],
                                   [from |-> targetId, to |-> note.id, type |-> "backlink"]>>,
                  !.nodeDegree = d2]
       ELSE acc

RECURSIVE linksLoop(_, _, _, _, _)
linksLoop(acc, note, links, titleMap, noteMap) ==
  IF links = <<>> THEN acc
  ELSE linksLoop(linkStep(acc, note, Head(links), titleMap, noteMap),
                 note, Tail(links), titleMap, noteMap)

\* The body of notes.forEach for one note, x being what extractLinks(note.content)
\* returned and left in the two regexes.
noteStep(acc, note, x, titleMap, noteMap) ==
  linksLoop([acc EXCEPT !.wikilinkLast = x.wikilinkLast, !.mdLinkLast = x.mdLinkLast],
            note, x.links, titleMap, noteMap)

\* notes.forEach(note => { const links = this.extractLinks(note.content); links.forEach(...) })
RECURSIVE notesLoop(_, _, _, _)
notesLoop(acc, notes, titleMap, noteMap) ==
  IF notes = <<>> THEN acc
  ELSE notesLoop(noteStep(acc, Head(notes),
                          extractLinks(Head(notes).content, acc.wikilinkLast),
                          titleMap, noteMap),
                 Tail(notes), titleMap, noteMap)

\* One node of the result.  The size field, Math.max(1, Math.log(degree + 1) * 6),
\* is a function of degree alone and is left out.
makeNode(note, nodeDegree) ==
  LET tags == extractTags(note.content)
      degree == degreeOf(nodeDegree, note.id)
  IN [id |-> note.id, title |-> note.title, tags |-> tags, degree |-> degree,
      color |-> getColorForNode(tags, degree)]

\* The nodes and the deduplicated edges indexGraph returns, acc being the edges and
\* degrees its loops have collected.
graphOf(notes, acc) ==
  LET threw == \E i \in 1..Len(notes) : extractTagsThrows(notes[i].content)
  IN [threw |-> threw,
      nodes |-> IF threw THEN <<>> ELSE [i \in 1..Len(notes) |-> makeNode(notes[i], acc.nodeDegree)],
      edges |-> IF threw THEN <<>> ELSE deduplicateEdges(acc.edges),
      wikilinkLast |-> acc.wikilinkLast,
      mdLinkLast |-> acc.mdLinkLast]

\* indexGraph(notes) on an instance whose regexes hold the given lastIndex.
\* The result carries the lastIndex the call leaves behind, and threw = TRUE
\* when the call ends in a TypeError instead of returning.
indexGraph(notes, wikilinkLast, mdLinkLast) ==
  graphOf(notes,
          notesLoop([edges |-> <<>>, nodeDegree |-> initDegree(notes, <<>>),
                     wikilinkLast |-> wikilinkLast, mdLinkLast |-> mdLinkLast],
                    notes, buildTitleMap(notes, <<>>), buildNoteMap(notes, <<>>)))

\* GraphView.loadGraph: the type given to a node of the worker's payload,
\* (node.degree || 0) >= 3 ? 'main' : (node.degree || 0) >= 1 ? 'secondary' : 'isolated'
nodeTypeOf(degree) ==
  IF degree >= 3 THEN "main" ELSE IF degree >= 1 THEN "secondary" ELSE "isolated"

\* GraphView.loadGraph: nodeDataArray, the nodes of the init payload, under the
\* settings GraphView starts with (orphans shown, minLinks 0, no local mode), which
\* filter no node out.
nodeDataArray(graphNodes) ==
  [i \in 1..Len(graphNodes) |->
     [id |-> graphNodes[i].id, type |-> nodeTypeOf(graphNodes[i].degree),
      links |-> graphNodes[i].degree]]

\* getBacklinks without the test on the kind of the edge.
getBacklinks_allKinds(noteId, edgeList) ==
  LET into(e) == e.to = noteId
      kept == SelectSeq(edgeList, into)
  IN [i \in 1..Len(kept) |-> kept[i].from]

\* getBacklinks(noteId, edges): edges.filter(e => e.to === noteId && e.type !== 'backlink')
\* .map(e => e.from)
getBacklinks(noteId, edgeList) ==
  LET into(e) == e.to = noteId /\ e.type # "backlink"
      kept == SelectSeq(edgeList, into)
  IN [i \in 1..Len(kept) |-> kept[i].from]

\* adjacencyOf that enters every edge in both directions.
RECURSIVE adjacencyOf_undirected(_, _)
adjacencyOf_undirected(edgeList, adjacency) ==
  IF edgeList = <<>> THEN adjacency
  ELSE LET e == Head(edgeList)
           a1 == IF MapHas(adjacency, e.from) THEN adjacency ELSE MapSet(adjacency, e.from, <<>>)
           a2 == MapSet(a1, e.from, Append(MapGet(a1, e.from), e.to))
           a3 == IF MapHas(a2, e.to) THEN a2 ELSE MapSet(a2, e.to, <<>>)
           a4 == MapSet(a3, e.to, Append(MapGet(a3, e.to), e.from))
       IN adjacencyOf_undirected(Tail(edgeList), a4)

\* The adjacency map shortestPath builds: edges.forEach(edge => { if
\* (!adjacency.has(edge.from)) adjacency.set(edge.from, []);
\* adjacency.get(edge.from).push(edge.to) })
RECURSIVE adjacencyOf(_, _)
adjacencyOf(edgeList, adjacency) ==
  IF edgeList = <<>> THEN adjacency
  ELSE LET e == Head(edgeList)
           a1 == IF MapHas(adjacency, e.from) THEN adjacency ELSE MapSet(adjacency, e.from, <<>>)
       IN adjacencyOf(Tail(edgeList), MapSet(a1, e.from, Append(MapGet(a1, e.from), e.to)))

\* for (const neighbor of neighbors): a neighbor not yet visited is marked and
\* queued with the path to it.
RECURSIVE visitNeighbors(_, _, _)
visitNeighbors(search, current, neighbors) ==
  IF neighbors = <<>> THEN search
  ELSE visitNeighbors(
         IF Head(neighbors) \in search.visited THEN search
         ELSE [queue |-> Append(search.queue,
                                [id |-> Head(neighbors),
                                 path |-> Append(current.path, Head(neighbors))]),
               visited |-> search.visited \cup {Head(neighbors)}],
         current, Tail(neighbors))

\* The while loop of shortestPath: the path of the first queued entry that is at
\* toId, null when the queue runs empty.
RECURSIVE searchLoop(_, _, _)
searchLoop(search, adjacency, toId) ==
  IF search.queue = <<>> THEN [isNull |-> TRUE, path |-> <<>>]
  ELSE LET current == Head(search.queue)
       IN IF current.id = toId THEN [isNull |-> FALSE, path |-> current.path]
          ELSE searchLoop(
                 visitNeighbors([search EXCEPT !.queue = Tail(@)], current,
                                IF MapHas(adjacency, current.id)
                                  THEN MapGet(adjacency, current.id) ELSE <<>>),
                 adjacency, toId)

\* shortestPath(fromId, toId, edges)
shortestPath(fromId, toId, edgeList) ==
  searchLoop([queue |-> <<[id |-> fromId, path |-> <<fromId>>]>>, visited |-> {fromId}],
             adjacencyOf(edgeList, <<>>), toId)

(***************************************************************************)
(* graph-worker.js : force simulation.                                     *)
(*                                                                         *)
(* Numbers are fixed point.  Coordinates and velocities are in tenths of   *)
(* a unit, masses in tenths, attraction, damping and centerForce in        *)
(* thousandths; repulsion, maxSpeed and linkDistance are whole units.      *)
(* Every quotient is cut toward zero.                                      *)
(***************************************************************************)

TruncDiv(a, b) == IF a >= 0 THEN a \div b ELSE -((-a) \div b)

RECURSIVE isqrtIn(_, _, _)
isqrtIn(n, lo, hi) ==
  IF lo >= hi THEN lo
  ELSE LET mid == (lo + hi + 1) \div 2
       IN IF mid * mid <= n THEN isqrtIn(n, mid, hi) ELSE isqrtIn(n, lo, mid - 1)

\* Math.sqrt, to the tenth below.
sqrt(n) == isqrtIn(n, 0, 46340)

\* Math.sqrt(dx * dx + dy * dy) || 1
distanceOf(dx, dy) == IF sqrt(dx * dx + dy * dy) = 0 THEN 10 ELSE sqrt(dx * dx + dy * dy)

\* massOf that gives every type the mass 1.
massOf_flat(type) == 10

\* mass: nodeData.type === 'main' ? 2 : nodeData.type === 'secondary' ? 1.5 : 1
massOf(type) == IF type = "main" THEN 20 ELSE IF type = "secondary" THEN 15 ELSE 10

\* let params = {...} at load
DefaultParams ==
  [attraction |-> 10, repulsion |-> 300, damping |-> 800, maxSpeed |-> 10,
   centerForce |-> 20, linkDistance |-> 50]

\* { ...params, ...data } : data is a record of some of the parameters, or undefined.
mergeParams(p, data) ==
  IF data = Absent THEN p
  ELSE [k \in DOMAIN p \cup DOMAIN ValueOf(data) |->
          IF k \in DOMAIN ValueOf(data) THEN ValueOf(data)[k] ELSE p[k]]

\* 1-based index of the entry of key k in a Map, 0 when nodes.get(k) is undefined.
MapIndex(m, k) == IF MapHas(m, k) THEN CHOOSE i \in 1..Len(m) : m[i].key = k ELSE 0

\* The body of the inner loop of applyRepulsion for nodeArray[i], nodeArray[j].
repelPair(ns, i, j, p) ==
  LET a == ns[i].value
      b == ns[j].value
      dx == b.x - a.x
      dy == b.y - a.y
      distance == distanceOf(dx, dy)
      force == TruncDiv(1000 * p.repulsion, distance * distance)
      fx == TruncDiv(dx * force, distance)
      fy == TruncDiv(dy * force, distance)
  IN [ns EXCEPT
        ![i].value.vx = a.vx - TruncDiv(10 * fx, a.mass),
        ![i].value.vy = a.vy - TruncDiv(10 * fy, a.mass),
        ![j].value.vx = b.vx + TruncDiv(10 * fx, b.mass),
        ![j].value.vy = b.vy + TruncDiv(10 * fy, b.mass)]

RECURSIVE repulsionLoop(_, _, _, _)
repulsionLoop(ns, i, j, p) ==
  IF i > Len(ns) THEN ns
  ELSE IF j > Len(ns) THEN repulsionLoop(ns, i + 1, i + 2, p)
  ELSE repulsionLoop(repelPair(ns, i, j, p), i, j + 1, p)

applyRepulsion(ns, p) == repulsionLoop(ns, 1, 2, p)

\* The body of edges.forEach in applyAttraction.
attractEdge(ns, edge, p) ==
  LET si == MapIndex(ns, edge.source)
      ti == MapIndex(ns, edge.target)
      dx == ns[ti].value.x - ns[si].value.x
      dy == ns[ti].value.y - ns[si].value.y
      distance == distanceOf(dx, dy)
      displacement == distance - 10 * p.linkDistance
      force == TruncDiv(displacement * p.attraction, 1000)
      fx == TruncDiv(dx * force, distance)
      fy == TruncDiv(dy * force, distance)
      n1 == [ns EXCEPT ![si].value.vx = @ + TruncDiv(10 * fx, ns[si].value.mass),
                       ![si].value.vy = @ + TruncDiv(10 * fy, ns[si].value.mass)]
  IN IF si = 0 \/ ti = 0 THEN ns
     ELSE [n1 EXCEPT ![ti].value.vx = @ - TruncDiv(10 * fx, n1[ti].value.mass),
                     ![ti].value.vy = @ - TruncDiv(10 * fy, n1[ti].value.mass)]

RECURSIVE applyAttraction(_, _, _)
applyAttraction(ns, es, p) ==
  IF es = <<>> THEN ns ELSE applyAttraction(attractEdge(ns, Head(es), p), Tail(es), p)

applyCenterForce(ns, p) ==
  [i \in 1..Len(ns) |->
     [ns[i] EXCEPT !.value.vx = @ - TruncDiv(ns[i].value.x * p.centerForce, 1000),
                   !.value.vy = @ - TruncDiv(ns[i].value.y * p.centerForce, 1000)]]

\* The body of nodes.forEach in updatePositions.
moveNode(n, p) ==
  LET dvx == TruncDiv(n.vx * p.damping, 1000)
      dvy == TruncDiv(n.vy * p.damping, 1000)
      speed == sqrt(dvx * dvx + dvy * dvy)
      vx == IF speed > 10 * p.maxSpeed THEN TruncDiv(dvx * 10 * p.maxSpeed, speed) ELSE dvx
      vy == IF speed > 10 * p.maxSpeed THEN TruncDiv(dvy * 10 * p.maxSpeed, speed) ELSE dvy
  IN [n EXCEPT !.vx = vx, !.vy = vy, !.x = n.x + vx, !.y = n.y + vy]

updatePositions(ns, p) == [i \in 1..Len(ns) |-> [ns[i] EXCEPT !.value = moveNode(@, p)]]

\* The data of the positions message simulationStep posts.
positionsOf(ns) == [i \in 1..Len(ns) |-> [id |-> ns[i].value.id, x |-> ns[i].value.x, y |-> ns[i].value.y]]

\* One worker, as the record of its module-level state: nodes (a Map in insertion
\* order), edges, params, isRunning, the number of pending setTimeout callbacks,
\* and what the current handler run has done: how many simulationStep calls, the
\* messages it has posted, and whether it ended by throwing.
\* initGraph(data): ring[i] is the random point drawn for data.nodes[i].
RECURSIVE seedNodes(_, _, _, _)
seedNodes(m, nodeList, ring, i) ==
  IF i > Len(nodeList) THEN m
  ELSE seedNodes(MapSet(m, nodeList[i].id,
                        [id |-> nodeList[i].id, x |-> ring[i][1], y |-> ring[i][2],
                         vx |-> 0, vy |-> 0, mass |-> massOf(nodeList[i].type),
                         type |-> nodeList[i].type]),
                 nodeList, ring, i + 1)

\* initGraph without nodes.clear().
initGraph_noClear(w, data, ring) ==
  LET kept == [w EXCEPT !.edges = data.edges, !.params = mergeParams(w.params, data.params)]
  IN IF data.nodes = Absent
       THEN [kept EXCEPT !.threw = TRUE]
       ELSE [kept EXCEPT !.nodes = seedNodes(w.nodes, ValueOf(data.nodes), ring, 1)]

initGraph(w, data, ring) ==
  LET cleared == [w EXCEPT !.nodes = <<>>, !.edges = data.edges,
                           !.params = mergeParams(w.params, data.params)]
  IN IF data.nodes = Absent
       THEN [cleared EXCEPT !.threw = TRUE]
       ELSE [cleared EXCEPT !.nodes = seedNodes(<<>>, ValueOf(data.nodes), ring, 1)]

\* simulationStep: edges.forEach in applyAttraction throws when edges is undefined,
\* after applyRepulsion has already changed the velocities.
simulationStep(w) ==
  IF w.edges = Absent
    THEN [w EXCEPT !.nodes = applyRepulsion(w.nodes, w.params), !.steps = @ + 1,
                   !.threw = TRUE]
    ELSE LET ns == updatePositions(
                     applyCenterForce(
                       applyAttraction(applyRepulsion(w.nodes, w.params), ValueOf(w.edges), w.params),
                       w.params),
                     w.params)
         IN [w EXCEPT !.nodes = ns, !.steps = @ + 1,
                      !.posted = Append(@, [type |-> "positions", data |-> positionsOf(ns)])]

\* const loop = () => { if (!isRunning) return; simulationStep(); setTimeout(...) }
loop(w) ==
  IF ~w.isRunning THEN w
  ELSE LET s == simulationStep(w)
       IN IF s.threw THEN s ELSE [s EXCEPT !.timers = @ + 1]

startSimulation(w) ==
  IF w.isRunning THEN w ELSE loop([w EXCEPT !.isRunning = TRUE])

\* stopSimulation that leaves isRunning as it is.
stopSimulation_noop(w) == w

stopSimulation(w) == [w EXCEPT !.isRunning = FALSE]

\* The callback given to setTimeout: () => { if (isRunning) { loop() } }
timerCallback(w) == IF w.isRunning THEN loop(w) ELSE w

\* case 'init'
onInit(w, data, ring) ==
  LET g == initGraph(w, data, ring)
  IN IF g.threw THEN g ELSE startSimulation(g)

\* The body of data.forEach in case 'updateNodes'.
RECURSIVE updateNodesLoop(_, _)
updateNodesLoop(ns, list) ==
  IF list = <<>> THEN ns
  ELSE LET i == MapIndex(ns, Head(list).id)
       IN updateNodesLoop(
            IF i = 0 THEN ns
            ELSE [ns EXCEPT ![i].value.mass = massOf(Head(list).type),
                            ![i].value.type = Head(list).type],
            Tail(list))

\* onUnknown that stops the simulation.
onUnknown_stop(w) == [w EXCEPT !.isRunning = FALSE]

\* default: console.warn('Unknown message type:', type)
onUnknown(w) == w

\* onUpdateParams that replaces the parameters by the data.
onUpdateParams_replace(w, data) == [w EXCEPT !.params = ValueOf(data)]

\* case 'updateParams'
onUpdateParams(w, data) == [w EXCEPT !.params = mergeParams(w.params, data)]

\* onUpdateNodes that also puts every node at rest.
onUpdateNodes_atRest(w, data) ==
  LET ns == updateNodesLoop(w.nodes, data)
  IN [w EXCEPT !.nodes = [i \in 1..Len(ns) |-> [ns[i] EXCEPT !.value.vx = 0, !.value.vy = 0]]]

\* case 'updateNodes'
onUpdateNodes(w, data) == [w EXCEPT !.nodes = updateNodesLoop(w.nodes, data)]

(***************************************************************************)
(* Bounds and inputs                                                       *)
(***************************************************************************)

\* simulationStep calls explored after one init
MaxTicks == 3

\* pending setTimeout callbacks explored
MaxTimers == 2

\* Two points of the ring of radius [200, 300) that initGraph draws from.
RingPoints == {<<2000, 0>>, <<2100, 0>>}

OnRing(pt) == pt[1] * pt[1] + pt[2] * pt[2] >= 2000 * 2000
              /\ pt[1] * pt[1] + pt[2] * pt[2] < 3000 * 3000

NodeListPool ==
  {<<>>,
   <<[id |-> "a", type |-> "main"], [id |-> "b", type |-> "secondary"]>>,
   <<[id |-> "b", type |-> "isolated"], [id |-> "c", type |-> "main"]>>,
   <<[id |-> "a", type |-> "secondary"], [id |-> "a", type |-> "isolated"]>>}

EdgeListPool ==
  {<<[source |-> "a", target |-> "b"], [source |-> "b", target |-> "c"]>>}

\* physicsParams of GraphView: five of the six parameters.
GraphViewParams ==
  [attraction |-> 15, repulsion |-> 500, damping |-> 850, centerForce |-> 15,
   linkDistance |-> 50]

\* The data of an init message: as GraphView sends it, without params, and
\* without nodes or without edges.
InitPayloads ==
  [nodes : {Present(l) : l \in NodeListPool} \cup {Absent},
   edges : {Present(l) : l \in EdgeListPool} \cup {Absent},
   params : {Present(GraphViewParams)}]
    \cup [nodes : {Present(l) : l \in NodeListPool}, edges : {Present(<<>>)}, params : {Absent}]

\* The data of an updateParams message: all of physicsParams, as GraphView sends
\* it, and one parameter alone.
UpdateParamsPool == {Present(GraphViewParams), Present([linkDistance |-> 50])}

UpdateNodesPool ==
  {<<[id |-> "b", type |-> "main"], [id |-> "z", type |-> "main"]>>}

UnknownTypes == {"reset"}

\* indexGraph calls explored on one GraphIndexer instance
MaxCalls == 2

\* notes in the list given to indexGraph
MaxNotes == 2

\* Ids and titles of the notes: two titles equal up to case, a title that is the
\* id of another note, an empty title.
NoteHeads ==
  {[id |-> <<"1">>, title |-> <<"A", "b">>],
   [id |-> <<"2">>, title |-> <<"a", "b">>],
   [id |-> <<"3">>, title |-> <<"1">>],
   [id |-> <<"4">>, title |-> <<>>]}

\* Note bodies: links of both kinds by title, by id, by file name and by path,
\* with alias and section, repeated, unresolved, external, and a tag.
ContentPool ==
  {<<>>,
   <<"[", "[", "A", "b", "]", "]">>,
   <<"[", "[", "1", "]", "]", " ", "[", "x", "]", "(", "2", ")">>,
   <<"[", "[", "A", "b", "]", "]", "[", "[", "a", "b", "|", "x", "]", "]", " ", "[", "y", "]", "(", ".", "/", "A", "B", ".", "m", "d", ")">>,
   <<"[", "[", "d", "/", "A", "B", "#", "s", "]", "]", " ", "[", "y", "]", "(", "d", "/", ")">>,
   <<"[", "[", "z", "z", "]", "]", " ", "[", "w", "]", "(", "h", "t", "t", "p", ":", "/", "/", "1", ")", " ", "#", "t">>,
   <<"[", "[", "2", "]", "]", " ", "[", "[", "1", "]", "]">>}

NotePool ==
  {[id |-> h.id, title |-> h.title, content |-> Present(c)] : h \in NoteHeads, c \in ContentPool}

\* Lists whose ids hold the arrow deduplicateEdges joins the two ids of a key with.
ArrowIdLists ==
  {<<[id |-> <<"a", "-", ">", "b", "-", ">", "a">>, title |-> <<"m">>, content |-> Present(<<"[", "[", "b", "-", ">", "a", "]", "]", " ", "[", "[", "a", "-", ">", "b", "]", "]">>)],
     [id |-> <<"b", "-", ">", "a">>, title |-> <<"n">>, content |-> Present(<<>>)],
     [id |-> <<"a", "-", ">", "b">>, title |-> <<"o">>, content |-> Present(<<>>)]>>,
   <<[id |-> <<"a", "-", ">", "b">>, title |-> <<"o">>, content |-> Present(<<"[", "[", "a", "-", ">", "b", "-", ">", "a", "]", "]">>)],
     [id |-> <<"b", "-", ">", "a">>, title |-> <<"n">>, content |-> Present(<<"[", "[", "a", "-", ">", "b", "-", ">", "a", "]", "]">>)],
     [id |-> <<"a", "-", ">", "b", "-", ">", "a">>, title |-> <<"m">>, content |-> Present(<<>>)]>>}

\* The example of a note titled Project Plan with id abc, linked by file name.
ProjectPlanLists ==
  {<<[id |-> <<"a", "b", "c">>, title |-> <<"P", "r", "o", "j", "e", "c", "t", " ", "P", "l", "a", "n">>, content |-> Present(<<>>)],
     [id |-> <<"d", "e", "f">>, title |-> <<"O", "t", "h", "e", "r">>, content |-> Present(<<"[", "[", "p", "r", "o", "j", "e", "c", "t", "-", "p", "l", "a", "n", ".", "m", "d", "]", "]">>)]>>,
   <<[id |-> <<"a", "b", "c">>, title |-> <<"P", "r", "o", "j", "e", "c", "t", " ", "P", "l", "a", "n">>, content |-> Present(<<>>)],
     [id |-> <<"d", "e", "f">>, title |-> <<"O", "t", "h", "e", "r">>, content |-> Present(<<"[", "[", "P", "r", "o", "j", "e", "c", "t", " ", "P", "l", "a", "n", ".", "m", "d", "]", "]">>)]>>,
   <<[id |-> <<"d", "e", "f">>, title |-> <<"O", "t", "h", "e", "r">>, content |-> Present(<<"[", "p", "]", "(", ".", "/", "n", "o", "t", "e", "s", "/", "P", "r", "o", "j", "e", "c", "t", " ", "P", "l", "a", "n", ".", "m", "d", ")">>)],
     [id |-> <<"a", "b", "c">>, title |-> <<"P", "r", "o", "j", "e", "c", "t", " ", "P", "l", "a", "n">>, content |-> Present(<<>>)]>>,
   <<[id |-> <<"a", "b", "c">>, title |-> <<"P", "r", "o", "j", "e", "c", "t", " ", "P", "l", "a", "n">>, content |-> Present(<<>>)],
     [id |-> <<"d", "e", "f">>, title |-> <<"p", "r", "o", "j", "e", "c", "t", "-", "p", "l", "a", "n">>, content |-> Present(<<"[", "[", "p", "r", "o", "j", "e", "c", "t", "-", "p", "l", "a", "n", ".", "m", "d", "]", "]">>)],
     [id |-> <<"g", "h", "i">>, title |-> <<"O", "t", "h", "e", "r">>, content |-> Present(<<"[", "[", "p", "r", "o", "j", "e", "c", "t", "-", "p", "l", "a", "n", ".", "m", "d", "]", "]", " ", "[", "[", "a", "b", "c", "]", "]">>)]>>}

\* Lists with a note whose content is undefined.
AbsentContentLists ==
  {<<[id |-> <<"1">>, title |-> <<"A", "b">>, content |-> Absent]>>,
   <<[id |-> <<"1">>, title |-> <<"A", "b">>, content |-> Absent],
     [id |-> <<"2">>, title |-> <<"a", "b">>, content |-> Present(<<"[", "[", "1", "]", "]">>)]>>,
   <<[id |-> <<"2">>, title |-> <<"a", "b">>, content |-> Present(<<"[", "[", "1", "]", "]", " ", "#", "t">>)],
     [id |-> <<"1">>, title |-> <<"A", "b">>, content |-> Absent]>>}

\* Lists in which two notes are joined by links of both kinds: a markdown link
\* written before a wikilink in the same note, and a markdown link of the first
\* note before a wikilink of the second.
MixedKindLists ==
  {<<[id |-> <<"1">>, title |-> <<"A", "b">>, content |-> Present(<<"[", "x", "]", "(", "2", ")", " ", "[", "[", "c", "d", "]", "]">>)],
     [id |-> <<"2">>, title |-> <<"c", "d">>, content |-> Present(<<"[", "[", "1", "]", "]">>)]>>,
   <<[id |-> <<"1">>, title |-> <<"A", "b">>, content |-> Present(<<"[", "x", "]", "(", "2", ")">>)],
     [id |-> <<"2">>, title |-> <<"c", "d">>, content |-> Present(<<"[", "[", "A", "b", "]", "]", " ", "[", "y", "]", "(", "1", ")">>)]>>}

NoteLists ==
  UNION {[1..n -> NotePool] : n \in 0..MaxNotes}
    \cup ArrowIdLists \cup ProjectPlanLists \cup AbsentContentLists \cup MixedKindLists

\* edges in the list given to getBacklinks and shortestPath
MaxEdges == 3

QueryIds == {<<"a">>, <<"b">>, <<"c">>}

\* Edges between three notes: links both ways, backlinks, a cycle.
QueryEdgePool ==
  {[from |-> <<"a">>, to |-> <<"b">>, type |-> "wikilink"],
   [from |-> <<"b">>, to |-> <<"a">>, type |-> "backlink"],
   [from |-> <<"b">>, to |-> <<"c">>, type |-> "mdlink"],
   [from |-> <<"c">>, to |-> <<"b">>, type |-> "backlink"],
   [from |-> <<"c">>, to |-> <<"a">>, type |-> "wikilink"],
   [from |-> <<"a">>, to |-> <<"c">>, type |-> "backlink"]}

QueryEdgeLists == UNION {[1..n -> QueryEdgePool] : n \in 0..MaxEdges}

(***************************************************************************)
(* State                                                                   *)
(***************************************************************************)

VARIABLES
  \* GraphIndexer: the notes handed to indexGraph, the lastIndex of the two
  \* global regexes of the shared instance, the result of the last call and
  \* of the call before it, and the number of calls made
  notes, wikilinkLastIndex, mdLinkLastIndex, graph, prevGraph, calls,
  \* graph-worker.js: its module-level state and pending timers
  nodes, edges, params, isRunning, timers,
  \* simulationStep calls since the last init, the messages the last handler or
  \* callback posted, whether it ended in an uncaught exception
  ticks, posted, uncaught,
  \* history: what happened since the last stop was processed, and what the last
  \* handler did when it was an init
  sinceStop, initSnapshot,
  \* history: the message the last handler run was for, or the timer
  lastMessage,
  \* the edge list given to getBacklinks and shortestPath, and the last call of
  \* either with what it returned
  queryEdges, query,
  \* GraphView: the isSimulationRunning state, whether workerRef.current holds a
  \* worker, and the messages posted to that worker it has not yet processed
  isSimulationRunning, hasWorker, inbox

indexerVars == <<notes, wikilinkLastIndex, mdLinkLastIndex, graph, prevGraph, calls>>

workerVars == <<nodes, edges, params, isRunning, timers, ticks, posted, uncaught,
                sinceStop, initSnapshot, lastMessage>>

queryVars == <<queryEdges, query>>

viewVars == <<isSimulationRunning, hasWorker, inbox>>

vars == <<indexerVars, workerVars, queryVars, viewVars>>

NoGraph == [threw |-> FALSE, nodes |-> <<>>, edges |-> <<>>, none |-> TRUE]

NotStopped == [active |-> FALSE, fired |-> FALSE, emitted |-> 0]

NoSnapshot == [taken |-> FALSE]

NoMessage == [type |-> "none"]

NoQuery == [op |-> "none"]

InitQueryVars == queryEdges = <<>> /\ query = NoQuery

\* GraphView as mounted: useState(true), useRef<Worker | null>(null).
InitViewVars == isSimulationRunning = TRUE /\ hasWorker = FALSE /\ inbox = <<>>

InitIndexerVars ==
  /\ wikilinkLastIndex = 0
  /\ mdLinkLastIndex = 0
  /\ graph = NoGraph
  /\ prevGraph = NoGraph
  /\ calls = 0

\* The worker as loaded: lines 9-21 of graph-worker.js.
InitWorkerVars ==
  /\ nodes = <<>>
  /\ edges = Present(<<>>)
  /\ params = DefaultParams
  /\ isRunning = FALSE
  /\ timers = 0
  /\ ticks = 0
  /\ posted = <<>>
  /\ uncaught = FALSE
  /\ sinceStop = NotStopped
  /\ initSnapshot = NoSnapshot
  /\ lastMessage = NoMessage

(***************************************************************************)
(* GraphIndexer: one call of graphIndexer.indexGraph(notes)                *)
(***************************************************************************)

Returned(r) ==
  /\ graph' = [threw |-> r.threw, nodes |-> r.nodes, edges |-> r.edges, none |-> FALSE]
  /\ wikilinkLastIndex' = r.wikilinkLast
  /\ mdLinkLastIndex' = r.mdLinkLast

IndexGraph ==
  /\ calls < MaxCalls
  /\ Returned(indexGraph(notes, wikilinkLastIndex, mdLinkLastIndex))
  /\ prevGraph' = graph
  /\ calls' = calls + 1
  /\ UNCHANGED <<notes, workerVars, queryVars, viewVars>>

InitIndexer ==
  notes \in NoteLists /\ InitIndexerVars /\ InitWorkerVars /\ InitQueryVars /\ InitViewVars

NextIndexer == IndexGraph

SpecIndexer == InitIndexer /\ [][NextIndexer]_vars

(***************************************************************************)
(* GraphIndexer: getBacklinks and shortestPath on a given edge list        *)
(***************************************************************************)

\* graphIndexer.getBacklinks(noteId, edges)
GetBacklinks ==
  \E noteId \in QueryIds :
    /\ query' = [op |-> "getBacklinks", noteId |-> noteId, edges |-> queryEdges,
                 result |-> getBacklinks(noteId, queryEdges)]
    /\ UNCHANGED <<queryEdges, indexerVars, workerVars, viewVars>>

\* graphIndexer.shortestPath(fromId, toId, edges)
ShortestPath ==
  \E fromId \in QueryIds, toId \in QueryIds :
    /\ query' = [op |-> "shortestPath", fromId |-> fromId, toId |-> toId,
                 edges |-> queryEdges, result |-> shortestPath(fromId, toId, queryEdges)]
    /\ UNCHANGED <<queryEdges, indexerVars, workerVars, viewVars>>

InitQueries ==
  /\ notes = <<>> /\ InitIndexerVars /\ InitWorkerVars /\ InitViewVars
  /\ queryEdges \in QueryEdgeLists
  /\ query = NoQuery

NextQueries == GetBacklinks \/ ShortestPath

SpecQueries == InitQueries /\ [][NextQueries]_vars

(***************************************************************************)
(* graph-worker.js: self.onmessage and the timer callback                  *)
(***************************************************************************)

\* The worker's state at the start of a handler run.
Worker ==
  [nodes |-> nodes, edges |-> edges, params |-> params, isRunning |-> isRunning,
   timers |-> timers, steps |-> ticks, posted |-> <<>>, threw |-> FALSE]

Commit(r) ==
  /\ nodes' = r.nodes
  /\ edges' = r.edges
  /\ params' = r.params
  /\ isRunning' = r.isRunning
  /\ timers' = r.timers
  /\ ticks' = r.steps
  /\ posted' = r.posted
  /\ uncaught' = r.threw

WithinBounds(r) == r.steps <= MaxTicks /\ r.timers <= MaxTimers

\* The points Math.random() gives the nodes of a payload: no two nodes the same.
RingsFor(data) ==
  LET n == IF data.nodes = Absent THEN 0 ELSE Len(ValueOf(data.nodes))
  IN {ring \in [1..n -> RingPoints] : \A i, j \in 1..n : i # j => ring[i] # ring[j]}

\* Some node of the worker shares its id with a node of the payload and has moved
\* or is moving: state an init must not keep.
StaleFor(data) ==
  /\ data.nodes # Absent
  /\ \E i \in 1..Len(nodes), j \in 1..Len(ValueOf(data.nodes)) :
       /\ nodes[i].key = ValueOf(data.nodes)[j].id
       /\ (nodes[i].value.vx # 0 \/ nodes[i].value.vy # 0)
       /\ <<nodes[i].value.x, nodes[i].value.y>> \notin RingPoints

\* Some node of the worker has an id the payload does not name: a node an init
\* must drop.
DroppedFor(data) ==
  \E i \in 1..Len(nodes) :
    \/ data.nodes = Absent
    \/ \A j \in 1..Len(ValueOf(data.nodes)) : nodes[i].key # ValueOf(data.nodes)[j].id

\* The handler run for a message { type: 'init', data }.
HandleInit(data) ==
  \E ring \in RingsFor(data) :
    LET r == onInit([Worker EXCEPT !.steps = 0], data, ring)
    IN /\ WithinBounds(r)
       /\ Commit(r)
       /\ sinceStop' = NotStopped
       /\ initSnapshot' = [taken |-> TRUE, data |-> data, ring |-> ring,
                           stale |-> StaleFor(data), dropped |-> DroppedFor(data),
                           wasRunning |-> isRunning,
                           seeded |-> initGraph(Worker, data, ring).nodes,
                           emitted |-> Len(r.posted)]
       /\ lastMessage' = [type |-> "init"]
       /\ UNCHANGED <<indexerVars, queryVars>>

\* message { type: 'init', data }
OnInit == \E data \in InitPayloads : HandleInit(data) /\ UNCHANGED viewVars

\* The handler run for a message { type: 'start' }.
HandleStart ==
  LET r == startSimulation(Worker)
  IN /\ WithinBounds(r)
     /\ Commit(r)
     /\ sinceStop' = NotStopped
     /\ initSnapshot' = NoSnapshot
     /\ lastMessage' = [type |-> "start"]
     /\ UNCHANGED <<indexerVars, queryVars>>

\* message { type: 'start' }
OnStart == HandleStart /\ UNCHANGED viewVars

\* The handler run for a message { type: 'stop' }.
HandleStop ==
  /\ Commit(stopSimulation(Worker))
  /\ sinceStop' = [active |-> TRUE, fired |-> FALSE, emitted |-> 0]
  /\ initSnapshot' = NoSnapshot
  /\ lastMessage' = [type |-> "stop"]
  /\ UNCHANGED <<indexerVars, queryVars>>

\* message { type: 'stop' }
OnStop == HandleStop /\ UNCHANGED viewVars

\* message { type: 'updateParams', data }
OnUpdateParams ==
  \E data \in UpdateParamsPool :
    /\ Commit(onUpdateParams(Worker, data))
    /\ initSnapshot' = NoSnapshot
    /\ lastMessage' = [type |-> "updateParams", data |-> data]
    /\ UNCHANGED <<sinceStop, indexerVars, queryVars, viewVars>>

\* message { type: 'updateNodes', data }
OnUpdateNodes ==
  \E data \in UpdateNodesPool :
    /\ Commit(onUpdateNodes(Worker, data))
    /\ initSnapshot' = NoSnapshot
    /\ lastMessage' = [type |-> "updateNodes", data |-> data]
    /\ UNCHANGED <<sinceStop, indexerVars, queryVars, viewVars>>

\* a message of any other type: console.warn
OnUnknown ==
  \E type \in UnknownTypes :
    /\ Commit(onUnknown(Worker))
    /\ initSnapshot' = NoSnapshot
    /\ lastMessage' = [type |-> type]
    /\ UNCHANGED <<sinceStop, indexerVars, queryVars, viewVars>>

\* The run of one pending setTimeout callback.
HandleTimer ==
  /\ timers > 0
  /\ LET r == timerCallback([Worker EXCEPT !.timers = @ - 1])
     IN /\ WithinBounds(r)
        /\ Commit(r)
        /\ sinceStop' = IF sinceStop.active
                          THEN [sinceStop EXCEPT !.fired = TRUE, !.emitted = @ + Len(r.posted)]
                          ELSE sinceStop
  /\ initSnapshot' = NoSnapshot
  /\ lastMessage' = [type |-> "timer"]
  /\ UNCHANGED <<indexerVars, queryVars>>

\* One pending setTimeout callback runs.
TimerFires == HandleTimer /\ UNCHANGED viewVars

InitWorker ==
  notes = <<>> /\ InitIndexerVars /\ InitWorkerVars /\ InitQueryVars /\ InitViewVars

NextWorker ==
  \/ OnInit
  \/ OnStart
  \/ OnStop
  \/ OnUpdateParams
  \/ OnUpdateNodes
  \/ OnUnknown
  \/ TimerFires

SpecWorker == InitWorker /\ [][NextWorker]_vars

(***************************************************************************)
(* GraphView: the pause button, the reloads of the graph and the worker    *)
(* that workerRef.current holds                                            *)
(***************************************************************************)

\* messages posted to the worker and not yet processed by it
MaxInbox == 2

\* The init payloads loadGraph posts: nodes and the edges between them, with
\* physicsParams.
ViewPayloads ==
  {[nodes |-> Present(<<>>), edges |-> Present(<<>>), params |-> Present(GraphViewParams)],
   [nodes |-> Present(<<[id |-> "a", type |-> "secondary"], [id |-> "b", type |-> "secondary"]>>),
    edges |-> Present(<<[source |-> "a", target |-> "b"]>>),
    params |-> Present(GraphViewParams)]}

\* loadGraph, once PIXI is ready: terminate the worker workerRef.current holds,
\* with its pending messages and timers, create a new one, which loads
\* graph-worker.js afresh, and post init to it.  isSimulationRunning is not set.
LoadGraph ==
  \E data \in ViewPayloads :
    /\ nodes' = <<>> /\ edges' = Present(<<>>) /\ params' = DefaultParams
    /\ isRunning' = FALSE /\ timers' = 0 /\ ticks' = 0
    /\ posted' = <<>> /\ uncaught' = FALSE
    /\ sinceStop' = NotStopped /\ initSnapshot' = NoSnapshot /\ lastMessage' = NoMessage
    /\ hasWorker' = TRUE
    /\ inbox' = <<[type |-> "init", data |-> data]>>
    /\ UNCHANGED <<isSimulationRunning, indexerVars, queryVars>>

\* toggleSimulation: with a worker, post stop or start by the flag, then negate
\* the flag; without a worker the click does nothing.
ToggleSimulation ==
  /\ hasWorker
  /\ Len(inbox) < MaxInbox
  /\ inbox' = Append(inbox, [type |-> IF isSimulationRunning THEN "stop" ELSE "start",
                             data |-> Absent])
  /\ isSimulationRunning' = ~isSimulationRunning
  /\ UNCHANGED <<hasWorker, workerVars, indexerVars, queryVars>>

\* The worker processes the oldest message posted to it.
ReceiveInit ==
  /\ inbox # <<>> /\ Head(inbox).type = "init"
  /\ HandleInit(Head(inbox).data)
  /\ inbox' = Tail(inbox)
  /\ UNCHANGED <<isSimulationRunning, hasWorker>>

ReceiveStart ==
  /\ inbox # <<>> /\ Head(inbox).type = "start"
  /\ HandleStart
  /\ inbox' = Tail(inbox)
  /\ UNCHANGED <<isSimulationRunning, hasWorker>>

ReceiveStop ==
  /\ inbox # <<>> /\ Head(inbox).type = "stop"
  /\ HandleStop
  /\ inbox' = Tail(inbox)
  /\ UNCHANGED <<isSimulationRunning, hasWorker>>

InitView ==
  notes = <<>> /\ InitIndexerVars /\ InitWorkerVars /\ InitQueryVars /\ InitViewVars

NextView ==
  \/ LoadGraph
  \/ ToggleSimulation
  \/ ReceiveInit
  \/ ReceiveStart
  \/ ReceiveStop
  \/ TimerFires

SpecView == InitView /\ [][NextView]_vars

(***************************************************************************)
(* Properties of GraphIndexer                                              *)
(***************************************************************************)

TitleMapOf == buildTitleMap(notes, <<>>)

NoteMapOf == buildNoteMap(notes, <<>>)

NoteIndexes == 1..Len(notes)

\* The link occurrences that resolve to a note other than the one they are in:
\* the k-th link of a fresh scan of the i-th note, from that note to another.
Occurrences ==
  UNION {LET ls == extractLinks(notes[i].content, 0).links
         IN {[note |-> i, link |-> k, from |-> notes[i].id, type |-> ls[k].type,
              to |-> resolveLink(ls[k], TitleMapOf, NoteMapOf)] :
               k \in {k \in 1..Len(ls) :
                        LET r == resolveLink(ls[k], TitleMapOf, NoteMapOf)
                        IN r # Null /\ r # <<>> /\ r # notes[i].id}} : i \in NoteIndexes}

\* The links of one note that resolve to that note.
SelfLinks(i) ==
  LET ls == extractLinks(notes[i].content, 0).links
  IN {k \in 1..Len(ls) : resolveLink(ls[k], TitleMapOf, NoteMapOf) = notes[i].id}

Indexed == ~graph.none /\ ~graph.threw

EndpointsOf(e) == {e.from, e.to}

DistinctIds == \A i, j \in NoteIndexes : i # j => notes[i].id # notes[j].id

RECURSIVE SumDegrees(_)
SumDegrees(ns) == IF ns = <<>> THEN 0 ELSE Head(ns).degree + SumDegrees(Tail(ns))

\* C1: the edge list returned by indexGraph has at most one edge per unordered
\* pair of endpoints, however many links join the two notes.
C1_OneEdgePerPair ==
  Indexed =>
    \A i, j \in 1..Len(graph.edges) :
      i # j => EndpointsOf(graph.edges[i]) # EndpointsOf(graph.edges[j])

\* Two notes joined by a wikilink and a markdown link one way and a link back,
\* indexed.
C1_Witness ==
  /\ Indexed
  /\ Len(graph.edges) = 1
  /\ LET occ == Occurrences
     IN \E o1, o2, o3 \in occ :
          /\ o1.from = o2.from /\ o1.to = o2.to
          /\ o1.type = "wikilink" /\ o2.type = "mdlink"
          /\ o3.from = o1.to /\ o3.to = o1.from

\* C2: no edge returned by indexGraph joins a note to itself, and the degree of
\* every node counts only the links between it and another note: a link that
\* resolves to the note containing it adds no edge and no degree.
C2_NoSelfLoop ==
  Indexed =>
    /\ \A i \in 1..Len(graph.edges) : graph.edges[i].from # graph.edges[i].to
    /\ LET occ == Occurrences
       IN \A n \in NoteIndexes :
            graph.nodes[n].degree =
              Cardinality({o \in occ : o.from = notes[n].id})
                + Cardinality({o \in occ : o.to = notes[n].id})

\* A note that links to itself by id or by title, indexed.
C2_Witness ==
  /\ Indexed
  /\ \E i \in NoteIndexes : SelfLinks(i) # {}

\* C3: with distinct note ids, the degrees of the returned nodes sum to twice the
\* number of link occurrences resolved to another note, whatever deduplication
\* leaves of the edges.
C3_DegreeSum ==
  (Indexed /\ DistinctIds) => SumDegrees(graph.nodes) = 2 * Cardinality(Occurrences)

\* Three or more links between notes of distinct ids, folded into one edge.
C3_Witness ==
  /\ Indexed
  /\ DistinctIds
  /\ Cardinality(Occurrences) >= 3
  /\ Len(graph.edges) = 1

\* The ids of the notes whose title, lowercased, is t.
IdsWithTitle(t) == {notes[i].id : i \in {i \in NoteIndexes : toLowerCase(notes[i].title) = t}}

\* The results the rule order of the claim allows for a target, with the name
\* that rule 4 looks up given.
RuleOrder(target, rule4Name) ==
  LET cleaned == replaceDotSlashPrefix(replaceMdSuffix(target))
  IN IF \E i \in NoteIndexes : notes[i].id = target THEN {target}
     ELSE IF IdsWithTitle(toLowerCase(target)) # {} THEN IdsWithTitle(toLowerCase(target))
     ELSE IF IdsWithTitle(toLowerCase(cleaned)) # {} THEN IdsWithTitle(toLowerCase(cleaned))
     ELSE IF rule4Name # Absent /\ IdsWithTitle(toLowerCase(ValueOf(rule4Name))) # {}
       THEN IdsWithTitle(toLowerCase(ValueOf(rule4Name)))
     ELSE {Null}

\* The segment after the last slash of the cleaned target.
BasenameOf(target) == splitPop(replaceDotSlashPrefix(replaceMdSuffix(target)))

AllLinks ==
  UNION {LET ls == extractLinks(notes[i].content, 0).links
         IN {ls[k] : k \in 1..Len(ls)} : i \in NoteIndexes}

\* Every returned edge joins the two notes of a link that resolved.
EdgesFromResolvedLinks ==
  LET occ == Occurrences
  IN \A i \in 1..Len(graph.edges) :
       \E o \in occ : EndpointsOf(graph.edges[i]) = {o.from, o.to}

FreshAcc ==
  [edges |-> <<>>, nodeDegree |-> initDegree(notes, <<>>), wikilinkLast |-> 0, mdLinkLast |-> 0]

\* The wikilinks of the i-th note whose target text is the title of that note.
OwnTitleLinks(i) ==
  LET ls == extractLinks(notes[i].content, 0).links
  IN {ls[k] : k \in {k \in 1..Len(ls) :
                       ls[k].type = "wikilink" /\ ls[k].target = notes[i].title}}

\* No other note has the title of the i-th note as its id, or as its title up to case.
TitleIsOwn(i) ==
  \A j \in NoteIndexes :
    j # i => /\ notes[j].id # notes[i].title
             /\ toLowerCase(notes[j].title) # toLowerCase(notes[i].title)

\* C9 as claimed: a wikilink whose target text is the title of the note it is in
\* adds no edge and no degree, for every note of every list.
C9_OwnTitleLinkAsClaimed ==
  Indexed =>
    \A i \in NoteIndexes : \A l \in OwnTitleLinks(i) :
      linkStep(FreshAcc, notes[i], l, TitleMapOf, NoteMapOf) = FreshAcc

\* C9 amended: it adds no edge and no degree when no other note has that title
\* as its id or, up to case, as its title.
C9_OwnTitleLink ==
  Indexed =>
    \A i \in NoteIndexes :
      TitleIsOwn(i) =>
        \A l \in OwnTitleLinks(i) :
          linkStep(FreshAcc, notes[i], l, TitleMapOf, NoteMapOf) = FreshAcc

\* A note whose title is its own that links to that title, indexed with another note.
C9_Witness ==
  /\ Indexed
  /\ Len(notes) > 1
  /\ \E i \in NoteIndexes : TitleIsOwn(i) /\ OwnTitleLinks(i) # {}

\* C10: a second indexGraph call on the same instance and the same notes returns
\* the same degrees and the same edges in the same order as the first.
C10_SameResultTwice ==
  calls >= 2 =>
    /\ graph.threw = prevGraph.threw
    /\ Len(graph.nodes) = Len(prevGraph.nodes)
    /\ \A i \in 1..Len(graph.nodes) :
         /\ graph.nodes[i].id = prevGraph.nodes[i].id
         /\ graph.nodes[i].degree = prevGraph.nodes[i].degree
    /\ Len(graph.edges) = Len(prevGraph.edges)
    /\ \A i \in 1..Len(graph.edges) :
         EndpointsOf(graph.edges[i]) = EndpointsOf(prevGraph.edges[i])

\* Two calls on notes with several wikilinks in one body and an edge in the result.
C10_Witness ==
  /\ calls = 2
  /\ Len(graph.edges) > 0
  /\ \E i \in NoteIndexes :
       Cardinality({l \in AllLinks : l.type = "wikilink"}) >= 2
       /\ Len(extractLinks(notes[i].content, 0).links) >= 2

(***************************************************************************)
(* Properties of GraphIndexer: edges kept, degree, direction, absent text  *)
(***************************************************************************)

EdgesJoining(pair) == {i \in 1..Len(graph.edges) : EndpointsOf(graph.edges[i]) = pair}

\* C11: every pair of distinct notes joined by at least one resolved link has
\* exactly one edge in the result: deduplication never drops the only edge of a
\* pair, whatever the ids.
C11_ExactlyOneEdgePerLinkedPair ==
  Indexed => \A o \in Occurrences : Cardinality(EdgesJoining({o.from, o.to})) = 1

\* The link occurrences between the note of the given id and another note.
OccurrencesAt(occ, id) == {o \in occ : o.from = id \/ o.to = id}

\* C12 as claimed: the degree of a node is the number of edges incident to it in
\* the deduplicated edge list, where every linked pair has kept its edge.
C12_DegreeIsNeighbourCount ==
  (Indexed /\ \A o \in Occurrences : EdgesJoining({o.from, o.to}) # {}) =>
    \A n \in NoteIndexes :
      graph.nodes[n].degree =
        Cardinality({i \in 1..Len(graph.edges) : notes[n].id \in EndpointsOf(graph.edges[i])})

\* C12 amended: the degree of a node is the number of resolved link occurrences
\* between its note and another note, in either direction, which is at least the
\* number of edges incident to it.
C12_DegreeIsLinkCount ==
  Indexed =>
    LET occ == Occurrences
    IN \A n \in NoteIndexes :
         /\ graph.nodes[n].degree = Cardinality(OccurrencesAt(occ, notes[n].id))
         /\ graph.nodes[n].degree >=
              Cardinality({i \in 1..Len(graph.edges) :
                             notes[n].id \in EndpointsOf(graph.edges[i])})

\* A node with more link occurrences than neighbours.
C12_Witness ==
  /\ Indexed
  /\ \E n \in NoteIndexes :
       /\ graph.nodes[n].degree >= 3
       /\ Cardinality({i \in 1..Len(graph.edges) :
                         notes[n].id \in EndpointsOf(graph.edges[i])}) = 1

PlanTitle == <<"P", "r", "o", "j", "e", "c", "t", " ", "P", "l", "a", "n">>

PlanFile == <<"p", "r", "o", "j", "e", "c", "t", "-", "p", "l", "a", "n", ".", "m", "d">>

PlanTitleFile == <<"P", "r", "o", "j", "e", "c", "t", " ", "P", "l", "a", "n", ".", "m", "d">>

PlanSlug == <<"p", "r", "o", "j", "e", "c", "t", "-", "p", "l", "a", "n">>

PlanId == <<"a", "b", "c">>

\* The list holds the note abc titled Project Plan.
HasPlanNote == \E i \in NoteIndexes : notes[i].id = PlanId /\ notes[i].title = PlanTitle

\* The wikilinks of notes other than abc whose target is the given text.
LinksTo(target) ==
  UNION {LET ls == extractLinks(notes[i].content, 0).links
         IN {[note |-> i, link |-> ls[k]] :
               k \in {k \in 1..Len(ls) : ls[k].target = target /\ ls[k].type = "wikilink"}}
           : i \in {i \in NoteIndexes : notes[i].id # PlanId}}

\* C13 as claimed: with a note abc titled Project Plan, the wikilink
\* project-plan.md in another note resolves to abc and gives an edge to abc.
C13_SlugResolvesAsClaimed ==
  (Indexed /\ HasPlanNote) =>
    \A l \in LinksTo(PlanFile) :
      /\ resolveLink(l.link, TitleMapOf, NoteMapOf) = PlanId
      /\ EdgesJoining({notes[l.note].id, PlanId}) # {}

\* The notes a target can resolve to by its own text: by id, or by title.
NamedBy(names) ==
  {notes[k].id : k \in {k \in NoteIndexes :
                          notes[k].id \in names \/ toLowerCase(notes[k].title) \in names}}

\* C13 amended: the cleaned target project-plan is compared with the titles as it
\* is, so the link resolves only to a note named project-plan.md or project-plan,
\* and to nothing otherwise; the wikilink Project Plan.md is what resolves to abc,
\* when no note is named Project Plan.md and abc alone is titled Project Plan,
\* and it counts in the degree of abc.
C13_SlugResolution ==
  (Indexed /\ HasPlanNote) =>
    /\ \A l \in LinksTo(PlanFile) :
         resolveLink(l.link, TitleMapOf, NoteMapOf)
           \in {Null} \cup NamedBy({PlanFile, PlanSlug})
    /\ \A l \in LinksTo(PlanTitleFile) :
         (/\ NamedBy({PlanTitleFile, toLowerCase(PlanTitleFile)}) = {}
          /\ IdsWithTitle(toLowerCase(PlanTitle)) = {PlanId})
           => /\ resolveLink(l.link, TitleMapOf, NoteMapOf) = PlanId
              /\ \E n \in NoteIndexes : notes[n].id = PlanId /\ graph.nodes[n].degree >= 1

\* The note abc indexed with a note that links to project-plan.md, which resolves
\* to nothing, or with one that links to Project Plan.md.
C13_Witness ==
  /\ Indexed /\ HasPlanNote
  /\ \/ \E l \in LinksTo(PlanFile) : resolveLink(l.link, TitleMapOf, NoteMapOf) = Null
     \/ LinksTo(PlanTitleFile) # {}

DistinctTitles ==
  \A i, j \in NoteIndexes : i # j => toLowerCase(notes[i].title) # toLowerCase(notes[j].title)

Reversed == [i \in NoteIndexes |-> notes[Len(notes) + 1 - i]]

\* C14 as claimed: the direction of the edge stored for a pair does not depend on
\* the order of the notes in the list: for notes of distinct ids and titles, the
\* list taken backwards gives every edge of a pair it also joins the same from
\* and to.
C14_DirectionNormalized ==
  (Indexed /\ DistinctIds /\ DistinctTitles) =>
    LET back == indexGraph(Reversed, 0, 0).edges
    IN \A i \in 1..Len(graph.edges) : \A j \in 1..Len(back) :
         EndpointsOf(graph.edges[i]) = EndpointsOf(back[j])
           => graph.edges[i].from = back[j].from

\* The first link occurrence between the two notes of a pair, in the order
\* indexGraph meets them: notes in list order, links in the order of extractLinks.
FirstOccurrence(occ, pair) ==
  CHOOSE o \in occ :
    /\ {o.from, o.to} = pair
    /\ \A q \in occ :
         {q.from, q.to} = pair =>
           (o.note < q.note \/ (o.note = q.note /\ o.link <= q.link))

\* C14 amended: the edge stored for a pair has the direction and the kind of the
\* first link between the two notes that indexGraph meets.
C14_DirectionOfFirstLink ==
  Indexed =>
    LET occ == Occurrences
    IN \A i \in 1..Len(graph.edges) :
         LET o == FirstOccurrence(occ, EndpointsOf(graph.edges[i]))
         IN /\ graph.edges[i].from = o.from
            /\ graph.edges[i].to = o.to
            /\ graph.edges[i].type = o.type

\* An edge stored from the greater id to the smaller one, for two notes that link
\* to each other.
C14_Witness ==
  /\ Indexed
  /\ \E i \in 1..Len(graph.edges) :
       /\ StrLess(graph.edges[i].to, graph.edges[i].from)
       /\ \E o \in Occurrences : o.from = graph.edges[i].to /\ o.to = graph.edges[i].from

\* C17: indexGraph raises no error for a note whose content is empty or absent:
\* the call returns, with one node per note, and that note has no tags.
C17_AbsentContentNoError ==
  ~graph.none =>
    /\ ~graph.threw
    /\ Len(graph.nodes) = Len(notes)
    /\ \A i \in NoteIndexes :
         notes[i].content \in {Absent, Present(<<>>)} => graph.nodes[i].tags = <<>>


(***************************************************************************)
(* Properties of getBacklinks and shortestPath                             *)
(***************************************************************************)

\* The positions, in order, of the edges of the list of the last call that point
\* into the note and are not backlinks.
LinksInto(id) ==
  {i \in 1..Len(query.edges) : query.edges[i].to = id /\ query.edges[i].type # "backlink"}

\* The number of positions of the set below i, i included.
RankIn(S, i) == Cardinality({j \in S : j <= i})

DirectedPaths(edgeList, fromId, toId) ==
  {p \in UNION {[1..n -> QueryIds] : n \in 1..Cardinality(QueryIds)} :
     /\ p[1] = fromId /\ p[Len(p)] = toId
     /\ \A i, j \in 1..Len(p) : i # j => p[i] # p[j]
     /\ \A i \in 1..(Len(p) - 1) :
          \E k \in 1..Len(edgeList) : edgeList[k].from = p[i] /\ edgeList[k].to = p[i + 1]}

\* C16: shortestPath returns null exactly when no directed path leads from fromId
\* to toId, and otherwise a directed path from fromId to toId with the fewest
\* edges, which is the single id when the two are the same.
C16_ShortestPath ==
  query.op = "shortestPath" =>
    LET ps == DirectedPaths(query.edges, query.fromId, query.toId)
    IN /\ query.result.isNull <=> ps = {}
       /\ ~query.result.isNull =>
            /\ query.result.path \in ps
            /\ \A p \in ps : Len(query.result.path) <= Len(p)
       /\ query.fromId = query.toId => query.result.path = <<query.fromId>>
       /\ queryEdges = query.edges

\* A path of two edges found on a list that has a cycle.
C16_Witness ==
  /\ query.op = "shortestPath"
  /\ ~query.result.isNull
  /\ Len(query.result.path) = 3
  /\ DirectedPaths(query.edges, query.toId, query.fromId) # {}


(***************************************************************************)
(* Properties of the simulation worker                                     *)
(***************************************************************************)

\* C4: at most one tick loop is active, that is at most one self-scheduled timer
\* is pending, whatever the order of init, start and stop messages and timers.
C4_SingleTickLoop == timers <= 1

\* C5: between a processed stop and the next processed start or init, at most one
\* further positions message is posted.
C5_AtMostOnePositionsAfterStop == sinceStop.active => sinceStop.emitted <= 1

\* A timer set before the stop has fired after it, with simulation steps to spare.
C5_Witness == sinceStop.active /\ sinceStop.fired /\ ticks < MaxTicks

SeededIds == {initSnapshot.seeded[i].key : i \in 1..Len(initSnapshot.seeded)}

PayloadNodes == IF initSnapshot.data.nodes = Absent THEN <<>> ELSE ValueOf(initSnapshot.data.nodes)

\* The last entry of the payload with a given id: the one Map.set leaves in place.
LastEntryOf(id) ==
  CHOOSE j \in 1..Len(PayloadNodes) :
    /\ PayloadNodes[j].id = id
    /\ \A k \in (j + 1)..Len(PayloadNodes) : PayloadNodes[k].id # id

\* C6: initGraph leaves exactly the nodes of the payload, each once, at the point
\* drawn for it by this init and at rest, whatever the worker held before; when
\* the loop was already running that is the state the handler leaves.
C6_InitDiscardsPriorState ==
  initSnapshot.taken =>
    /\ SeededIds = {PayloadNodes[j].id : j \in 1..Len(PayloadNodes)}
    /\ Cardinality(SeededIds) = Len(initSnapshot.seeded)
    /\ \A i \in 1..Len(initSnapshot.seeded) :
         LET n == initSnapshot.seeded[i].value
             j == LastEntryOf(initSnapshot.seeded[i].key)
         IN /\ n.id = initSnapshot.seeded[i].key
            /\ n.vx = 0 /\ n.vy = 0
            /\ <<n.x, n.y>> = initSnapshot.ring[j]
            /\ OnRing(<<n.x, n.y>>)
            /\ n.type = PayloadNodes[j].type
            /\ n.mass = massOf(n.type)
    /\ (initSnapshot.wasRunning /\ ~uncaught) => nodes = initSnapshot.seeded

\* An init processed while running, for a node that had already moved.
C6_Witness ==
  /\ initSnapshot.taken
  /\ initSnapshot.wasRunning
  /\ initSnapshot.stale
  /\ nodes # <<>>

WellFormed(data) == data.nodes # Absent /\ data.edges # Absent

\* C7: processing an init is always followed by a started tick loop: the worker
\* is running with a timer pending for the next tick of the new node set.
C7_InitStartsLoop ==
  (initSnapshot.taken /\ WellFormed(initSnapshot.data)) => (isRunning /\ timers >= 1)

\* C18: an init whose payload lacks nodes or edges is a no-op initialization: the
\* handler ends without an exception, with no nodes and the simulation idle.
C18_MalformedInitIsNoOp ==
  (initSnapshot.taken /\ ~WellFormed(initSnapshot.data)) =>
    (~uncaught /\ nodes = <<>> /\ ~isRunning /\ timers = 0)

KnownTypes == {"init", "start", "stop", "updateParams", "updateNodes"}

\* C19: a message of any other type than the five the worker knows leaves nodes,
\* edges, params, the running flag and the pending timers as they are, posts
\* nothing and raises nothing.
C19_UnknownIgnored ==
  [][(lastMessage'.type \notin KnownTypes \cup {"timer", "none"}) =>
       /\ nodes' = nodes /\ edges' = edges /\ params' = params
       /\ isRunning' = isRunning /\ timers' = timers /\ ticks' = ticks
       /\ posted' = <<>> /\ ~uncaught']_vars

\* An unknown message processed while the loop runs over a non-empty node set.
C19_Witness ==
  /\ lastMessage.type \in UnknownTypes
  /\ isRunning /\ timers >= 1 /\ nodes # <<>>

\* C20: updateParams sets the parameters its data names, leaves the others,
\* maxSpeed among them, at their value, and leaves nodes, edges, the running
\* flag and the timers as they are.
C20_UpdateParamsMerges ==
  [][(lastMessage'.type = "updateParams") =>
       LET data == ValueOf(lastMessage'.data)
       IN /\ DOMAIN params' = DOMAIN params
          /\ \A k \in DOMAIN params :
               params'[k] = IF k \in DOMAIN data THEN data[k] ELSE params[k]
          /\ nodes' = nodes /\ edges' = edges
          /\ isRunning' = isRunning /\ timers' = timers
          /\ posted' = <<>> /\ ~uncaught']_vars

\* updateParams processed: the parameters GraphView sends are in place, maxSpeed
\* is the one the worker started with, and the nodes have moved and kept moving.
C20_Witness ==
  /\ lastMessage.type = "updateParams"
  /\ params.repulsion = GraphViewParams.repulsion
  /\ params.maxSpeed = DefaultParams.maxSpeed
  /\ nodes # <<>> /\ ticks >= 2 /\ isRunning

\* The ids an updateNodes list names, and the type its last entry for an id gives.
UpdatedIds(list) == {list[j].id : j \in 1..Len(list)}

LastTypeFor(list, id) ==
  list[CHOOSE j \in 1..Len(list) :
         list[j].id = id /\ \A k \in (j + 1)..Len(list) : list[k].id # id].type

\* C21: updateNodes changes nothing but the type and the mass of the nodes whose
\* id the worker already holds: the ids and their order stay, an entry with an
\* unknown id adds nothing, every position and velocity stays, a node the list
\* does not name stays as it is, and the edges, the params, the running flag and
\* the timers stay.
C21_UpdateNodesFrame ==
  [][(lastMessage'.type = "updateNodes") =>
       LET list == lastMessage'.data
       IN /\ Len(nodes') = Len(nodes)
          /\ \A i \in 1..Len(nodes) :
               /\ nodes'[i].key = nodes[i].key
               /\ nodes'[i].value.id = nodes[i].value.id
               /\ nodes'[i].value.x = nodes[i].value.x
               /\ nodes'[i].value.y = nodes[i].value.y
               /\ nodes'[i].value.vx = nodes[i].value.vx
               /\ nodes'[i].value.vy = nodes[i].value.vy
               /\ IF nodes[i].key \in UpdatedIds(list)
                    THEN nodes'[i].value.type = LastTypeFor(list, nodes[i].key)
                    ELSE nodes'[i] = nodes[i]
          /\ edges' = edges /\ params' = params
          /\ isRunning' = isRunning /\ timers' = timers
          /\ posted' = <<>> /\ ~uncaught']_vars

\* updateNodes processed while the loop runs: node b, seeded as secondary or
\* isolated, is main and still moving, next to a node the list does not name,
\* and the id z of the list is not among the nodes.
C21_Witness ==
  /\ lastMessage.type = "updateNodes"
  /\ isRunning /\ Len(nodes) = 2
  /\ \E i \in 1..Len(nodes) :
       /\ nodes[i].key = "b" /\ nodes[i].value.type = "main"
       /\ nodes[i].value.vx # 0
  /\ \A i \in 1..Len(nodes) : nodes[i].key # "z"

\* C22: from a processed stop until the next processed start or init, no node
\* changes position, whatever timers fire and whatever stop, updateParams,
\* updateNodes or other messages are processed; the stop itself moves nothing.
C22_StopFreezesLayout ==
  [][(\/ lastMessage'.type = "stop"
      \/ (sinceStop.active /\ lastMessage'.type \notin {"start", "init"})) =>
       positionsOf(nodes') = positionsOf(nodes)]_vars

\* After a stop, a timer set before it has fired over nodes that had moved and
\* still have a velocity.
C22_Witness ==
  /\ sinceStop.active /\ sinceStop.fired
  /\ lastMessage.type = "timer"
  /\ ~isRunning /\ ticks >= 1
  /\ \E i \in 1..Len(nodes) : nodes[i].value.vx # 0

\* C23: a started tick loop never ends on its own: while the worker is running
\* with a tick pending, no step other than a processed stop (no tick, no init,
\* updateParams, updateNodes or other message) leaves it without the running
\* flag or without a pending tick, and a tick that runs posts its positions.
C23_LoopEndsOnlyOnStop ==
  [][(isRunning /\ timers >= 1 /\ lastMessage'.type # "stop") =>
       /\ isRunning' /\ timers' >= 1
       /\ (lastMessage'.type = "timer" => Len(posted') = 1)]_vars

(***************************************************************************)
(* Properties of GraphView                                                 *)
(***************************************************************************)

\* C24: the type GraphView hands to the simulation for a node is main when its
\* degree is 2 or more, secondary when it is 1 and isolated when it is 0.
C24_Classification ==
  Indexed =>
    \A i \in 1..Len(graph.nodes) :
      nodeDataArray(graph.nodes)[i].type =
        IF graph.nodes[i].degree >= 2 THEN "main"
        ELSE IF graph.nodes[i].degree = 1 THEN "secondary" ELSE "isolated"

(***************************************************************************)
(* Properties of the simulation worker, continued                          *)
(***************************************************************************)

KeysOf(m) == [i \in 1..Len(m) |-> m[i].key]

\* The ids of the nodes of an init payload; none when the payload has no nodes.
PayloadIds(data) ==
  IF data.nodes = Absent THEN {}
  ELSE {ValueOf(data.nodes)[j].id : j \in 1..Len(ValueOf(data.nodes))}

\* C25: every positions message the worker posts has exactly one entry {id, x, y}
\* for each node the worker holds, at that node's position, and no other; the
\* nodes the worker holds are, each once, the ids of the payload of the last
\* init processed: an init leaves those ids and no step but an init changes them.
C25_PositionsCoverNodeSet ==
  [][/\ \A k \in 1..Len(posted') :
          /\ posted'[k].type = "positions"
          /\ Len(posted'[k].data) = Len(nodes')
          /\ \A i \in 1..Len(nodes') :
               /\ posted'[k].data[i] =
                    [id |-> nodes'[i].key, x |-> nodes'[i].value.x, y |-> nodes'[i].value.y]
               /\ \A j \in 1..Len(nodes') : nodes'[j].key = nodes'[i].key => j = i
     /\ IF lastMessage'.type = "init"
          THEN {nodes'[i].key : i \in 1..Len(nodes')} = PayloadIds(initSnapshot'.data)
          ELSE KeysOf(nodes') = KeysOf(nodes)]_vars

\* An init processed by a stopped worker that held a node the payload does not
\* name: the positions message of its first tick is posted for the new nodes.
C25_Witness ==
  /\ initSnapshot.taken /\ initSnapshot.dropped
  /\ ~initSnapshot.wasRunning
  /\ posted # <<>> /\ nodes # <<>>

\* C26: after every step, each node of the worker has the mass of its type, 2
\* for main, 1.5 for secondary and 1 for any other, in tenths here; a tick
\* changes neither the mass nor the type of a node.
C26_MassFollowsType ==
  [][/\ \A i \in 1..Len(nodes') :
          nodes'[i].value.mass =
            IF nodes'[i].value.type = "main" THEN 20
            ELSE IF nodes'[i].value.type = "secondary" THEN 15 ELSE 10
     /\ (lastMessage'.type = "timer") =>
          /\ Len(nodes') = Len(nodes)
          /\ \A i \in 1..Len(nodes) :
               /\ nodes'[i].value.mass = nodes[i].value.mass
               /\ nodes'[i].value.type = nodes[i].value.type]_vars

\* A tick has run and moved the nodes after an updateNodes made node b, seeded
\* as secondary or isolated, a main node of mass 2.
C26_Witness ==
  /\ lastMessage.type = "timer" /\ posted # <<>> /\ Len(nodes) = 2
  /\ \E i \in 1..Len(nodes) :
       /\ nodes[i].key = "b" /\ nodes[i].value.type = "main" /\ nodes[i].value.mass = 20

(***************************************************************************)
(* Properties of GraphIndexer, continued                                   *)
(***************************************************************************)

\* The link occurrences between the two notes of a pair, and the first note of
\* the list that holds one.
OccurrencesOf(pair) == {o \in Occurrences : {o.from, o.to} = pair}

FirstNoteOf(occ) == CHOOSE n \in {o.note : o \in occ} : \A o \in occ : n <= o.note

\* C27: every edge indexGraph returns has the kind of the first link between
\* its two endpoints in processing order, notes in list order and within a note
\* the wikilinks before the markdown links, and starts at the note that holds
\* that link; no returned edge is of kind backlink.
C27_KindOfFirstLink ==
  Indexed =>
    \A i \in 1..Len(graph.edges) :
      LET e == graph.edges[i]
          occ == OccurrencesOf(EndpointsOf(e))
      IN /\ occ # {}
         /\ e.type # "backlink"
         /\ e.from = notes[FirstNoteOf(occ)].id
         /\ e.type = IF \E o \in occ : o.note = FirstNoteOf(occ) /\ o.type = "wikilink"
                       THEN "wikilink" ELSE "mdlink"

\* An edge for two notes that link to each other, where the first of them holds
\* a link of either kind to the second.
C27_Witness ==
  /\ Indexed
  /\ \E i \in 1..Len(graph.edges) :
       LET occ == OccurrencesOf(EndpointsOf(graph.edges[i]))
       IN /\ \E o, q \in occ :
               /\ o.note = FirstNoteOf(occ) /\ q.note = o.note
               /\ o.type = "wikilink" /\ q.type = "mdlink"
          /\ \E o \in occ : o.note # FirstNoteOf(occ)

\* C28: indexGraph returns one node per note of the list, in the order of the
\* list and with the id of the note, and each end of every returned edge is the
\* id of a returned node.
C28_NodesAndEdgeEnds ==
  Indexed =>
    /\ Len(graph.nodes) = Len(notes)
    /\ \A i \in 1..Len(notes) : graph.nodes[i].id = notes[i].id
    /\ \A k \in 1..Len(graph.edges) :
         /\ \E i \in 1..Len(graph.nodes) : graph.nodes[i].id = graph.edges[k].from
         /\ \E i \in 1..Len(graph.nodes) : graph.nodes[i].id = graph.edges[k].to

\* A list of two notes of distinct ids, with a link that resolves to the other
\* note and a link that names no note: one edge, two nodes.
C28_Witness ==
  /\ Indexed /\ Len(notes) = 2 /\ DistinctIds
  /\ graph.edges # <<>>
  /\ \E l \in AllLinks :
       /\ resolveLink(l, TitleMapOf, NoteMapOf) = Null
       /\ \A i \in NoteIndexes : l.target # notes[i].id

\* C29: over the edges indexGraph returns, getBacklinks is complete: whenever a
\* note holds a link that resolves to another note, the id of the first is among
\* getBacklinks of the id of the second, also when the second links back.
C29_BacklinksComplete ==
  Indexed =>
    \A o \in Occurrences : SeqHas(getBacklinks(o.to, graph.edges), o.from)

(***************************************************************************)
(* Properties of GraphView, continued                                      *)
(***************************************************************************)

\* C30: once the worker has processed every message posted to it, the
\* isSimulationRunning flag of GraphView is the running state of the worker
\* workerRef.current holds, after any toggles and reloads.
C30_FlagAgreesWithWorker ==
  (hasWorker /\ inbox = <<>>) => (isSimulationRunning = isRunning)

====
